---- MODULE Spec2Model ----
(***************************************************************************)
(* The anonymous riddle game of backend/mymain.py and its in-memory        *)
(* session store of backend/game_service.py.                               *)
(*                                                                         *)
(* The handlers are asyncio coroutines on one event loop: a handler runs   *)
(* without interruption up to `await generate_riddle()`, where other       *)
(* requests may run, and then again without interruption to its end.       *)
(* start_game and submit_answer are therefore two steps each (up to the    *)
(* await, after the await); get_score and end_game never await and are one *)
(* step each.                                                              *)
(***************************************************************************)
EXTENDS Integers, Sequences, FiniteSets, Bags, TLC

VARIABLES
    anonymous_sessions, \* game_service.anonymous_sessions: session id -> session dict
    calls,              \* the handlers suspended at `await generate_riddle()`
    uuids_used,         \* how many session ids uuid4 has produced
    riddles_issued,     \* per session, the riddles generate_riddle returned to it
    response,           \* the HTTP response of the handler that ended last
    db                  \* the committed rows of the tables of models.py

vars == <<anonymous_sessions, calls, uuids_used, riddles_issued, response, db>>

(***************************************************************************)
(* Bounds of the model.                                                    *)
(***************************************************************************)
\* sessions created plus answers scored over a run
MaxTurns == 3
\* handlers suspended at `await generate_riddle()` at the same time
MaxCalls == 2
\* answers counted on the session whose success rate is read
MaxCounted == 6
\* sessions the store functions create when they are applied on their own
MaxStored == 2

(***************************************************************************)
(* Python values.                                                          *)
(***************************************************************************)
\* An optional value: None is the empty sequence, a present value v is <<v>>.
None == << >>

Some(v) == <<v>>

\* Text is a sequence of characters.
Whitespace == {" "}

\* str.lower() on one character
LowerChar(ch) == IF ch = "K" THEN "k" ELSE IF ch = "J" THEN "j" ELSE ch

\* str.lower()
lower(s) == [i \in 1..Len(s) |-> LowerChar(s[i])]

RECURSIVE lstrip(_)
lstrip(s) == IF s # << >> /\ Head(s) \in Whitespace THEN lstrip(Tail(s)) ELSE s

RECURSIVE rstrip(_)
rstrip(s) ==
    IF s # << >> /\ s[Len(s)] \in Whitespace
    THEN rstrip(SubSeq(s, 1, Len(s) - 1))
    ELSE s

\* str.strip()
strip(s) == rstrip(lstrip(s))

(***************************************************************************)
(* Inputs: what the generator service may return and what a player may     *)
(* submit.                                                                 *)
(***************************************************************************)
\* Riddle(question, answer) values the generator returns
Riddles ==
    { [question |-> "q1", answer |-> <<"K", " ">>],
      [question |-> "q2", answer |-> <<"j">>] }

\* AnswerRequest.answer values
Answers == { <<" ", "k">>, <<"K", " ">>, <<"x">> }

\* the session_id cookie: absent, or any string (ids the store never issued too)
NoCookie == 0

\* every id the store issued and one it never issued
Cookies == 0..(uuids_used + 1)

(***************************************************************************)
(* game_service.py: the riddle generator client and the session store.     *)
(***************************************************************************)
\* how the POST to the AI service can fail
GenFailures == {"timeout", "bad_status", "bad_json", "bad_shape"}

\* generate_riddle_error as it would be with `except Exception` as the only
\* handler after the timeout's
generate_riddle_error_generic(kind) ==
    IF kind = "timeout"
    THEN [status |-> 504, detail |-> "AI API timeout"]
    ELSE [status |-> 500, detail |-> "Unexpected error"]

\* the HTTPException generate_riddle raises for each failure: a timeout, a
\* non-200 status (its own HTTPException is caught by `except Exception` and
\* wrapped), a reply that is not JSON, a JSON reply that is no {question, answer}
generate_riddle_error(kind) ==
    CASE kind = "timeout" -> [status |-> 504, detail |-> "AI API timeout"]
      [] kind = "bad_json" -> [status |-> 500, detail |-> "Invalid AI response"]
      [] kind = "bad_status" ->
            [status |-> 500, detail |-> "Unexpected error: 500: AI API error"]
      [] kind = "bad_shape" ->
            [status |-> 500, detail |-> "Unexpected error: validation"]

\* create_anonymous_session as it would be if it rebuilt the whole store
create_anonymous_session_clobber(store, session_id) ==
    [id \in DOMAIN store \cup {session_id} |->
        [score |-> 0,
         active |-> TRUE,
         current_riddle |-> None,
         total_answered |-> 0,
         correct_answers |-> 0,
         questions_history |-> << >>,
         is_anonymous |-> TRUE]]

create_anonymous_session(store, session_id) ==
    [id \in DOMAIN store \cup {session_id} |->
        IF id = session_id
        THEN [score |-> 0,
              active |-> TRUE,
              current_riddle |-> None,
              total_answered |-> 0,
              correct_answers |-> 0,
              questions_history |-> << >>,
              is_anonymous |-> TRUE]
        ELSE store[id]]

\* dict.get: None when the key is absent
get_anonymous_session(store, session_id) ==
    IF session_id \in DOMAIN store THEN Some(store[session_id]) ELSE None

\* update_anonymous_session with dict.setdefault in front of the update
update_anonymous_session_setdefault(store, session_id, updates) ==
    [id \in DOMAIN store \cup {session_id} |->
        IF id = session_id
        THEN IF id \in DOMAIN store
             THEN [f \in DOMAIN store[id] \cup DOMAIN updates |->
                     IF f \in DOMAIN updates THEN updates[f] ELSE store[id][f]]
             ELSE updates
        ELSE store[id]]

\* dict.update on the stored session; the store is unchanged for an unknown id
update_anonymous_session(store, session_id, updates) ==
    IF session_id \in DOMAIN store
    THEN [store EXCEPT ![session_id] =
            [f \in DOMAIN store[session_id] \cup DOMAIN updates |->
                IF f \in DOMAIN updates THEN updates[f] ELSE store[session_id][f]]]
    ELSE store

\* what update_anonymous_session returns: True for a known id, else False
update_anonymous_session_returns(store, session_id) ==
    session_id \in DOMAIN store

\* delete_anonymous_session that keeps a session whose game has ended
delete_anonymous_session_active_only(store, session_id) ==
    IF session_id \in DOMAIN store
    THEN IF store[session_id].active
         THEN [id \in DOMAIN store \ {session_id} |-> store[id]]
         ELSE store
    ELSE store

\* del on the dict; the store is unchanged for an unknown id
delete_anonymous_session(store, session_id) ==
    IF session_id \in DOMAIN store
    THEN [id \in DOMAIN store \ {session_id} |-> store[id]]
    ELSE store

\* what delete_anonymous_session returns: True for a known id, else False
delete_anonymous_session_returns(store, session_id) ==
    session_id \in DOMAIN store

(***************************************************************************)
(* models.py: the tables, each a set of rows.  A user is named by the      *)
(* email and username it registered with.                                  *)
(***************************************************************************)
Users == {"u1", "u2"}

\* Base.metadata.create_all on a new database
EmptyDb ==
    [users |-> {}, user_stats |-> {}, game_sessions |-> {}, riddles_history |-> {}]

\* a UserStats row
stats_row(user, games, questions, right, highest) ==
    [user_id |-> user,
     total_games_played |-> games,
     total_questions_answered |-> questions,
     total_correct_answers |-> right,
     highest_score |-> highest]

\* UserStats(user_id=...): every counter takes its column default
new_user_stats(user) == stats_row(user, 0, 0, 0, 0)

\* a GameSession row and a RiddleHistory row, by their keys
game_session_row(id, user) == [id |-> id, user_id |-> user]

riddle_history_row(id, game_session) == [id |-> id, game_session_id |-> game_session]

\* db.query(UserStats).filter(UserStats.user_id == user)
stats_of(database, user) == {row \in database.user_stats : row.user_id = user}

\* db.query(GameSession).filter(GameSession.user_id == user)
game_sessions_of(database, user) ==
    {row \in database.game_sessions : row.user_id = user}

\* db.query(RiddleHistory).filter(RiddleHistory.game_session_id == session.id),
\* for every session of game_sessions
riddles_of(database, game_sessions) ==
    {row \in database.riddles_history :
        \E session \in game_sessions : row.game_session_id = session.id}

(***************************************************************************)
(* mymain.py: pieces of the handlers.                                      *)
(***************************************************************************)
\* the history entry start_game and submit_answer append for a new riddle
history_entry(riddle) ==
    [question |-> riddle.question,
     user_answer |-> None,
     correct |-> None,
     correct_answer |-> riddle.answer]

\* the current_riddle dict stored for a new riddle
riddle_dict(riddle) == [question |-> riddle.question, answer |-> riddle.answer]

\* is_correct_answer as it would be comparing the texts as given
is_correct_answer_raw(session, answer) ==
    answer = session.current_riddle[1].answer

\* submit_answer: the comparison of the submitted text with the current riddle
is_correct_answer(session, answer) ==
    strip(lower(answer)) = strip(lower(session.current_riddle[1].answer))

\* score_answer as it would be with a penalty for a wrong answer
score_answer_penalty(session, correct) ==
    [session EXCEPT
        !.total_answered = @ + 1,
        !.score = IF correct THEN @ + 1 ELSE @ - 1,
        !.correct_answers = IF correct THEN @ + 1 ELSE @]

\* score_answer as it would be with total_answered counted only for wrong answers
score_answer_uncounted(session, correct) ==
    [session EXCEPT
        !.total_answered = IF correct THEN @ ELSE @ + 1,
        !.score = IF correct THEN @ + 1 ELSE @,
        !.correct_answers = IF correct THEN @ + 1 ELSE @]

\* score_answer as it would be with the superseded rule of src/mymain.py, where
\* a wrong answer ends the game
score_answer_game_over(session, correct) ==
    [session EXCEPT
        !.total_answered = @ + 1,
        !.score = IF correct THEN @ + 1 ELSE @,
        !.correct_answers = IF correct THEN @ + 1 ELSE @,
        !.active = IF correct THEN @ ELSE FALSE]

\* submit_answer: the counters as updated before the await
score_answer(session, correct) ==
    [session EXCEPT
        !.total_answered = @ + 1,
        !.score = IF correct THEN @ + 1 ELSE @,
        !.correct_answers = IF correct THEN @ + 1 ELSE @]

\* issue_riddle as it would be without the append to questions_history
issue_riddle_unrecorded(session, riddle) ==
    [session EXCEPT !.current_riddle = Some(riddle_dict(riddle))]

\* issue_riddle as it would be if a new riddle put the session back in play
issue_riddle_reactivate(session, riddle) ==
    [session EXCEPT
        !.active = TRUE,
        !.current_riddle = Some(riddle_dict(riddle)),
        !.questions_history = Append(@, history_entry(riddle))]

\* submit_answer: the session as updated after the await
issue_riddle(session, riddle) ==
    [session EXCEPT
        !.current_riddle = Some(riddle_dict(riddle)),
        !.questions_history = Append(@, history_entry(riddle))]

\* submit_answer: the guard on the session looked up
answer_rejects(found) == IF found = None THEN TRUE ELSE ~found[1].is_anonymous

\* round(x / y * 100, 2) in hundredths, for 0 <= x <= y and 0 < y. No x / y * 100
\* with y < 32 lies halfway between two hundredths, so Python's rounding of
\* the float is the nearest hundredth.
round_percent(x, y) == (20000 * x + y) \div (2 * y)

\* success_rate as it would be if the percentage were cut, not rounded
success_rate_truncated(session) ==
    IF session.total_answered > 0
    THEN (10000 * session.correct_answers) \div session.total_answered
    ELSE 0

\* get_score, end_game: the success rate, in hundredths of a percent
success_rate(session) ==
    IF session.total_answered > 0
    THEN round_percent(session.correct_answers, session.total_answered)
    ELSE 0

\* mark_inactive as it would be if end_game also dropped the pending riddle
mark_inactive_clears(session) ==
    [session EXCEPT !.active = FALSE, !.current_riddle = None]

\* mark_inactive as it would be if end_game flipped the flag
mark_inactive_toggle(session) == [session EXCEPT !.active = ~@]

\* end_game: the session marked inactive
mark_inactive(session) == [session EXCEPT !.active = FALSE]

(***************************************************************************)
(* Suspended handlers.                                                     *)
(***************************************************************************)
\* A suspended handler keeps its locals: session_id, req.answer and is_correct;
\* `before` is the session as the handler found it (None for start_game).
Call(op, session_id, answer, correct, before) ==
    [op |-> op, session_id |-> session_id, req_answer |-> answer,
     is_correct |-> correct, before |-> before]

\* the handlers suspended now (a bag: two requests may be alike in everything)
Suspended == BagToSet(calls)

\* one more handler is suspended, one suspended handler has ended
Suspend(call) == calls (+) SetToBag({call})

Resume(call) == calls (-) SetToBag({call})

\* the event loop has room for one more suspended handler
CanSuspend == BagCardinality(calls) < MaxCalls

\* A response: the endpoint, the HTTP status, the detail or message, the
\* active flag of the session the handler found (None when it found none), and
\* the success_rate of a ScoreResponse or EndResponse (None in any other).
RateReply(op, status, detail, active_before, rate) ==
    [op |-> op, status |-> status, detail |-> detail,
     active_before |-> active_before, success_rate |-> rate]

Reply(op, status, detail, active_before) ==
    RateReply(op, status, detail, active_before, None)

RECURSIVE SumAnswered(_, _)
SumAnswered(store, n) ==
    IF n = 0 THEN 0 ELSE store[n].total_answered + SumAnswered(store, n - 1)

\* sessions created plus answers scored so far
Turns == uuids_used + SumAnswered(anonymous_sessions, uuids_used)

Init ==
    /\ anonymous_sessions = << >>
    /\ calls = EmptyBag
    /\ uuids_used = 0
    /\ riddles_issued = << >>
    /\ response = Reply("none", 0, "", None)
    /\ db = EmptyDb

(***************************************************************************)
(* POST /start                                                             *)
(***************************************************************************)
\* lines 221-222: the session is created, then the handler awaits the riddle
StartBegin ==
    /\ CanSuspend
    /\ Turns < MaxTurns
    /\ uuids_used' = uuids_used + 1
    /\ anonymous_sessions' =
            create_anonymous_session(anonymous_sessions, uuids_used + 1)
    /\ riddles_issued' =
            [id \in DOMAIN riddles_issued \cup {uuids_used + 1} |->
                IF id = uuids_used + 1 THEN 0 ELSE riddles_issued[id]]
    /\ calls' = Suspend(Call("start", uuids_used + 1, << >>, FALSE, None))
    /\ UNCHANGED response
    /\ UNCHANGED db

\* lines 225-249: the riddle arrived
StartOk(c, riddle) ==
    /\ c \in Suspended
    /\ c.op = "start"
    /\ anonymous_sessions' =
            update_anonymous_session(anonymous_sessions, c.session_id,
                [current_riddle |-> Some(riddle_dict(riddle)),
                 questions_history |-> <<history_entry(riddle)>>])
    /\ calls' = Resume(c)
    /\ riddles_issued' = [riddles_issued EXCEPT ![c.session_id] = @ + 1]
    /\ response' = Reply("start", 200, "Game started! Good luck!", None)
    /\ UNCHANGED uuids_used
    /\ UNCHANGED db

\* StartFail as it would be if start_game called generate_riddle again after a
\* failure and the second call returned a riddle
StartFailRetries(c, kind) == \E riddle \in Riddles : StartOk(c, riddle)

\* line 222 raises: the handler ends with generate_riddle's HTTPException
StartFail(c, kind) ==
    /\ c \in Suspended
    /\ c.op = "start"
    /\ calls' = Resume(c)
    /\ response' = Reply("start", generate_riddle_error(kind).status,
                         generate_riddle_error(kind).detail, None)
    /\ UNCHANGED <<anonymous_sessions, uuids_used, riddles_issued>>
    /\ UNCHANGED db

(***************************************************************************)
(* POST /answer                                                            *)
(***************************************************************************)
\* lines 254-255
AnswerNoCookie ==
    /\ response' = Reply("answer", 400, "No active game session.", None)
    /\ UNCHANGED <<anonymous_sessions, calls, uuids_used, riddles_issued>>
    /\ UNCHANGED db

\* AnswerInvalid as it would be if the lookup created the session it misses
AnswerInvalidCreates(cookie) ==
    /\ cookie # NoCookie
    /\ answer_rejects(get_anonymous_session(anonymous_sessions, cookie))
    /\ anonymous_sessions' = create_anonymous_session(anonymous_sessions, cookie)
    /\ response' = Reply("answer", 400, "Invalid or inactive session.", None)
    /\ UNCHANGED <<calls, uuids_used, riddles_issued>>
    /\ UNCHANGED db

\* lines 257-259
AnswerInvalid(cookie) ==
    /\ cookie # NoCookie
    /\ answer_rejects(get_anonymous_session(anonymous_sessions, cookie))
    /\ response' = Reply("answer", 400, "Invalid or inactive session.", None)
    /\ UNCHANGED <<anonymous_sessions, calls, uuids_used, riddles_issued>>
    /\ UNCHANGED db

\* line 261 on a session whose current_riddle is None: TypeError, a 500
AnswerNoRiddle(cookie) ==
    /\ cookie # NoCookie
    /\ ~answer_rejects(get_anonymous_session(anonymous_sessions, cookie))
    /\ anonymous_sessions[cookie].current_riddle = None
    /\ response' = Reply("answer", 500, "Internal Server Error",
                         Some(anonymous_sessions[cookie].active))
    /\ UNCHANGED <<anonymous_sessions, calls, uuids_used, riddles_issued>>
    /\ UNCHANGED db

\* lines 257-273: the answer is scored, then the handler awaits the next riddle
AnswerBegin(cookie, answer) ==
    /\ CanSuspend
    /\ cookie # NoCookie
    /\ ~answer_rejects(get_anonymous_session(anonymous_sessions, cookie))
    /\ anonymous_sessions[cookie].current_riddle # None
    /\ Turns < MaxTurns
    /\ LET session == anonymous_sessions[cookie]
           correct == is_correct_answer(session, answer)
       IN /\ anonymous_sessions' =
                [anonymous_sessions EXCEPT ![cookie] = score_answer(session, correct)]
          /\ calls' = Suspend(Call("answer", cookie, answer, correct, Some(session)))
    /\ UNCHANGED <<uuids_used, riddles_issued, response>>
    /\ UNCHANGED db

\* lines 274-302: the next riddle arrived
AnswerOk(c, riddle) ==
    /\ c \in Suspended
    /\ c.op = "answer"
    /\ anonymous_sessions' =
            [anonymous_sessions EXCEPT ![c.session_id] = issue_riddle(@, riddle)]
    /\ calls' = Resume(c)
    /\ riddles_issued' = [riddles_issued EXCEPT ![c.session_id] = @ + 1]
    /\ response' = Reply("answer", 200, IF c.is_correct THEN "Correct" ELSE "Wrong",
                         Some(c.before[1].active))
    /\ UNCHANGED uuids_used
    /\ UNCHANGED db

\* line 273 raises: the handler ends with generate_riddle's HTTPException
AnswerFail(c, kind) ==
    /\ c \in Suspended
    /\ c.op = "answer"
    /\ calls' = Resume(c)
    /\ response' = Reply("answer", generate_riddle_error(kind).status,
                         generate_riddle_error(kind).detail,
                         Some(c.before[1].active))
    /\ UNCHANGED <<anonymous_sessions, uuids_used, riddles_issued>>
    /\ UNCHANGED db

(***************************************************************************)
(* GET /score                                                              *)
(***************************************************************************)
\* lines 307-308
ScoreNoCookie ==
    /\ response' = Reply("score", 400, "No active game session.", None)
    /\ UNCHANGED <<anonymous_sessions, calls, uuids_used, riddles_issued>>
    /\ UNCHANGED db

\* lines 310-312
ScoreNotFound(cookie) ==
    /\ cookie # NoCookie
    /\ get_anonymous_session(anonymous_sessions, cookie) = None
    /\ response' = Reply("score", 400, "Session not found.", None)
    /\ UNCHANGED <<anonymous_sessions, calls, uuids_used, riddles_issued>>
    /\ UNCHANGED db

\* lines 314-330; line 327 is a TypeError on an active session without a riddle
GetScore(cookie) ==
    /\ cookie # NoCookie
    /\ get_anonymous_session(anonymous_sessions, cookie) # None
    /\ LET session == anonymous_sessions[cookie]
       IN response' =
            IF session.active /\ session.current_riddle = None
            THEN Reply("score", 500, "Internal Server Error", Some(session.active))
            ELSE RateReply("score", 200, "ok", Some(session.active),
                           Some(success_rate(session)))
    /\ UNCHANGED <<anonymous_sessions, calls, uuids_used, riddles_issued>>
    /\ UNCHANGED db

(***************************************************************************)
(* POST /end                                                               *)
(***************************************************************************)
\* lines 335-336
EndNoCookie ==
    /\ response' = Reply("end", 400, "No active game session.", None)
    /\ UNCHANGED <<anonymous_sessions, calls, uuids_used, riddles_issued>>
    /\ UNCHANGED db

\* lines 338-340
EndNotFound(cookie) ==
    /\ cookie # NoCookie
    /\ get_anonymous_session(anonymous_sessions, cookie) = None
    /\ response' = Reply("end", 400, "Session not found.", None)
    /\ UNCHANGED <<anonymous_sessions, calls, uuids_used, riddles_issued>>
    /\ UNCHANGED db

\* lines 342-362
EndGame(cookie) ==
    /\ cookie # NoCookie
    /\ get_anonymous_session(anonymous_sessions, cookie) # None
    /\ anonymous_sessions' =
            [anonymous_sessions EXCEPT ![cookie] = mark_inactive(@)]
    /\ response' = RateReply("end", 200, "Game ended successfully! Thanks for playing!",
                             Some(anonymous_sessions[cookie].active),
                             Some(success_rate(anonymous_sessions[cookie])))
    /\ UNCHANGED <<calls, uuids_used, riddles_issued>>
    /\ UNCHANGED db

Next ==
    \/ StartBegin
    \/ \E c \in Suspended, riddle \in Riddles : StartOk(c, riddle)
    \/ \E c \in Suspended, kind \in GenFailures : StartFail(c, kind)
    \/ AnswerNoCookie
    \/ \E cookie \in Cookies : AnswerInvalid(cookie)
    \/ \E cookie \in Cookies : AnswerNoRiddle(cookie)
    \/ \E cookie \in Cookies, answer \in Answers : AnswerBegin(cookie, answer)
    \/ \E c \in Suspended, riddle \in Riddles : AnswerOk(c, riddle)
    \/ \E c \in Suspended, kind \in GenFailures : AnswerFail(c, kind)
    \/ ScoreNoCookie
    \/ \E cookie \in Cookies : ScoreNotFound(cookie)
    \/ \E cookie \in Cookies : GetScore(cookie)
    \/ EndNoCookie
    \/ \E cookie \in Cookies : EndNotFound(cookie)
    \/ \E cookie \in Cookies : EndGame(cookie)

Spec == Init /\ [][Next]_vars

(***************************************************************************)
(* Reading the score: get_score and end_game on a session on which         *)
(* `counted` answers were counted, `right` of them correct.                *)
(***************************************************************************)
\* the session after start_game and `counted` turns of submit_answer with one
\* riddle, `right` of them answered correctly
played_session(riddle, counted, right) ==
    [score |-> right,
     active |-> TRUE,
     current_riddle |-> Some(riddle_dict(riddle)),
     total_answered |-> counted,
     correct_answers |-> right,
     questions_history |-> [i \in 1..(counted + 1) |-> history_entry(riddle)],
     is_anonymous |-> TRUE]

RateInit ==
    \E counted \in 0..MaxCounted, right \in 0..MaxCounted :
        /\ right <= counted
        /\ anonymous_sessions =
                <<played_session([question |-> "q2", answer |-> <<"j">>], counted, right)>>
        /\ calls = EmptyBag
        /\ uuids_used = 1
        /\ riddles_issued = <<counted + 1>>
        /\ response = Reply("none", 0, "", None)
        /\ db = EmptyDb

RateNext ==
    \/ \E cookie \in Cookies : GetScore(cookie)
    \/ \E cookie \in Cookies : EndGame(cookie)

RateSpec == RateInit /\ [][RateNext]_vars

(***************************************************************************)
(* The session store on its own: the four functions of game_service.py     *)
(* applied to any id, in any order.                                        *)
(***************************************************************************)
\* the partial dicts given to update_anonymous_session
Mutations ==
    {[score |-> 1],
     [active |-> FALSE],
     [active |-> TRUE, total_answered |-> 2],
     [current_riddle |-> Some(riddle_dict([question |-> "q2", answer |-> <<"j">>])),
      questions_history |-> <<history_entry([question |-> "q2", answer |-> <<"j">>])>>]}

\* what a store function returned for session_id, and the session it found
StoreReply(op, session_id, returned, found) ==
    [op |-> op, session_id |-> session_id, returned |-> returned, found |-> found]

StoreInit ==
    /\ anonymous_sessions = << >>
    /\ calls = EmptyBag
    /\ uuids_used = 0
    /\ riddles_issued = << >>
    /\ response = StoreReply("none", 0, None, None)
    /\ db = EmptyDb

StoreCreate ==
    /\ uuids_used < MaxStored
    /\ uuids_used' = uuids_used + 1
    /\ anonymous_sessions' =
            create_anonymous_session(anonymous_sessions, uuids_used + 1)
    /\ response' = StoreReply("create", uuids_used + 1, Some(uuids_used + 1), None)
    /\ UNCHANGED <<calls, riddles_issued>>
    /\ UNCHANGED db

StoreGet(session_id) ==
    /\ response' = StoreReply("get", session_id,
                              get_anonymous_session(anonymous_sessions, session_id),
                              get_anonymous_session(anonymous_sessions, session_id))
    /\ UNCHANGED <<anonymous_sessions, calls, uuids_used, riddles_issued>>
    /\ UNCHANGED db

StoreUpdate(session_id, updates) ==
    /\ anonymous_sessions' =
            update_anonymous_session(anonymous_sessions, session_id, updates)
    /\ response' = StoreReply("update", session_id,
            Some(update_anonymous_session_returns(anonymous_sessions, session_id)),
            get_anonymous_session(anonymous_sessions, session_id))
    /\ UNCHANGED <<calls, uuids_used, riddles_issued>>
    /\ UNCHANGED db

StoreDelete(session_id) ==
    /\ anonymous_sessions' =
            delete_anonymous_session(anonymous_sessions, session_id)
    /\ response' = StoreReply("delete", session_id,
            Some(delete_anonymous_session_returns(anonymous_sessions, session_id)),
            get_anonymous_session(anonymous_sessions, session_id))
    /\ UNCHANGED <<calls, uuids_used, riddles_issued>>
    /\ UNCHANGED db

StoreNext ==
    \/ StoreCreate
    \/ \E session_id \in Cookies : StoreGet(session_id)
    \/ \E session_id \in Cookies, updates \in Mutations :
          StoreUpdate(session_id, updates)
    \/ \E session_id \in Cookies : StoreDelete(session_id)

StoreSpec == StoreInit /\ [][StoreNext]_vars

(***************************************************************************)
(* Accounts: register, my-stats and delete-account on a database that was  *)
(* filled before the process started, next to a game that is being played. *)
(***************************************************************************)
\* lines 179-183
delete_user_stats(database, user) ==
    [database EXCEPT !.user_stats = @ \ stats_of(database, user)]

\* delete_game_sessions without the inner loop over the riddles
delete_game_sessions_keep_history(database, user) ==
    [database EXCEPT !.game_sessions = @ \ game_sessions_of(database, user)]

\* lines 186-198
delete_game_sessions(database, user) ==
    [database EXCEPT
        !.riddles_history = @ \ riddles_of(database, game_sessions_of(database, user)),
        !.game_sessions = @ \ game_sessions_of(database, user)]

\* line 201
delete_user(database, user) ==
    [database EXCEPT !.users = @ \ {user}]

\* what the transaction of delete_account holds after `step` of its three
\* deletions
delete_account_pending(database, user, step) ==
    IF step = 0 THEN database
    ELSE IF step = 1 THEN delete_user_stats(database, user)
    ELSE IF step = 2
         THEN delete_game_sessions(delete_user_stats(database, user), user)
         ELSE delete_user(
                  delete_game_sessions(delete_user_stats(database, user), user), user)

\* db.rollback(): the pending deletions are dropped
rollback(committed, pending) == committed

\* the rows a database can hold when the process starts
StatsRows ==
    {new_user_stats(user) : user \in Users} \cup
    {stats_row(user, 1, 2, 1, 1) : user \in Users}

GameSessionRows == {game_session_row(id, user) : id \in {1, 2}, user \in Users}

RiddleHistoryRows == {riddle_history_row(id, session) : id \in {1, 2}, session \in {1, 2}}

\* the unique and foreign keys of models.py
Consistent(database) ==
    /\ \A row \in database.user_stats : row.user_id \in database.users
    /\ \A row, other \in database.user_stats :
          row.user_id = other.user_id => row = other
    /\ \A row \in database.game_sessions : row.user_id \in database.users
    /\ \A row, other \in database.game_sessions : row.id = other.id => row = other
    /\ \A row \in database.riddles_history :
          \E session \in database.game_sessions : row.game_session_id = session.id
    /\ \A row, other \in database.riddles_history : row.id = other.id => row = other

AccountInit ==
    /\ anonymous_sessions =
            <<played_session([question |-> "q2", answer |-> <<"j">>], 2, 1)>>
    /\ calls = EmptyBag
    /\ uuids_used = 1
    /\ riddles_issued = <<3>>
    /\ response = Reply("none", 0, "", None)
    /\ db \in [users : SUBSET Users,
                user_stats : SUBSET StatsRows,
                game_sessions : SUBSET GameSessionRows,
                riddles_history : SUBSET RiddleHistoryRows]
    /\ Consistent(db)

\* lines 73-83: the email or the username is taken
RegisterExists(user) ==
    /\ user \in db.users
    /\ response' = Reply("register", 400, "Email or username already registered", None)
    /\ UNCHANGED <<anonymous_sessions, calls, uuids_used, riddles_issued, db>>

\* lines 85-123
Register(user) ==
    /\ user \notin db.users
    /\ db' = [db EXCEPT !.users = @ \cup {user},
                        !.user_stats = @ \cup {new_user_stats(user)}]
    /\ response' = Reply("register", 200, "bearer", None)
    /\ UNCHANGED <<anonymous_sessions, calls, uuids_used, riddles_issued>>

\* lines 370-398, for the user of a valid token
GetMyStats(user) ==
    /\ user \in db.users
    /\ db' = IF stats_of(db, user) = {}
             THEN [db EXCEPT !.user_stats = @ \cup {new_user_stats(user)}]
             ELSE db
    /\ LET user_stats == CHOOSE row \in stats_of(db', user) : TRUE
       IN response' = RateReply("my_stats", 200, "ok", None,
                Some(IF user_stats.total_questions_answered > 0
                     THEN round_percent(user_stats.total_correct_answers,
                                        user_stats.total_questions_answered)
                     ELSE 0))
    /\ UNCHANGED <<anonymous_sessions, calls, uuids_used, riddles_issued>>

\* lines 172-204, for the user of a valid token: db.commit() went through
DeleteAccountOk(user) ==
    /\ user \in db.users
    /\ db' = delete_account_pending(db, user, 3)
    /\ response' = Reply("delete_account", 200,
                         "Account and all data deleted successfully", None)
    /\ UNCHANGED <<anonymous_sessions, calls, uuids_used, riddles_issued>>

\* lines 205-210: a query, a flush or the commit raised after `step` deletions
DeleteAccountFail(user, step) ==
    /\ user \in db.users
    /\ db' = rollback(db, delete_account_pending(db, user, step))
    /\ response' = Reply("delete_account", 500, "Failed to delete account", None)
    /\ UNCHANGED <<anonymous_sessions, calls, uuids_used, riddles_issued>>

\* POST /end sent with the session cookie by a client that is logged in as
\* `user`: end_game takes no token and no database session
UserEndGame(user, cookie) ==
    /\ user \in db.users
    /\ EndGame(cookie)

AccountNext ==
    \/ \E user \in Users : RegisterExists(user)
    \/ \E user \in Users : Register(user)
    \/ \E user \in Users : GetMyStats(user)
    \/ \E user \in Users : DeleteAccountOk(user)
    \/ \E user \in Users, step \in 0..3 : DeleteAccountFail(user, step)
    \/ \E user \in Users, cookie \in Cookies : UserEndGame(user, cookie)

AccountSpec == AccountInit /\ [][AccountNext]_vars

(***************************************************************************)
(* Vocabulary of the properties.                                           *)
(***************************************************************************)
\* the fields of a session that a turn may touch
Game(session) ==
    <<session.score, session.total_answered, session.correct_answers,
      session.current_riddle, session.questions_history>>

\* the position in the history of the riddle a suspended answer scored against
ScoredAt(c) == Len(c.before[1].questions_history)

\* a response that reports a failure to the caller
IsError(reply) == reply.status >= 400

\* an /answer request carrying this cookie is handled in this step
AnswerRequest(cookie) ==
    \/ AnswerInvalid(cookie)
    \/ AnswerNoRiddle(cookie)
    \/ \E answer \in Answers : AnswerBegin(cookie, answer)

\* the session of this cookie exists and end_game has marked it inactive
Ended(cookie) ==
    /\ cookie \in DOMAIN anonymous_sessions
    /\ ~anonymous_sessions[cookie].active

\* the start_game that created this session is still awaiting its riddle
StartPending(id) == \E c \in Suspended : c.op = "start" /\ c.session_id = id

\* a handler reaches its await or returns from it in this step
AwaitStep == calls' # calls

\* a handler reaches its await in this step after writing the session of cookie
BeginAt(cookie) ==
    /\ AwaitStep /\ response' = response
    /\ anonymous_sessions'[cookie] # anonymous_sessions[cookie]

\* the suspended handler c returns from its await in this step
ResumeOf(c) == AwaitStep /\ CopiesIn(c, calls') < CopiesIn(c, calls)

\* the failure kind of the specification a generator failure belongs to
FailureKind(kind) == IF kind \in {"bad_json", "bad_shape"} THEN "malformed" ELSE kind

\* the step is the return of store function `op` applied to session_id
StoreStep(op, session_id) ==
    response'.op = op /\ response'.session_id = session_id

\* the calls to generate_riddle that are in flight: one per suspended handler
GeneratorCalls(bag) == BagCardinality(bag)

\* every session but the one of session_id is the same after the step
OthersUnchanged(session_id) ==
    /\ DOMAIN anonymous_sessions' = DOMAIN anonymous_sessions
    /\ \A other \in DOMAIN anonymous_sessions \ {session_id} :
          anonymous_sessions'[other] = anonymous_sessions[other]

\* the absolute value
Abs(n) == IF n < 0 THEN -n ELSE n

\* h hundredths of a percent is right / counted * 100 rounded to 2 decimals
IsRoundedPercent(h, right, counted) ==
    2 * Abs(h * counted - 10000 * right) <= counted

\* the three counters of a session
Counters(session) ==
    <<session.total_answered, session.score, session.correct_answers>>

\* the texts are equal after trim and lowercase of both
Matches(answer, riddle) == strip(lower(answer)) = strip(lower(riddle.answer))

(***************************************************************************)
(* C1: when the next-riddle fetch of an answer fails, the caller gets an   *)
(* error and score, total_answered, correct_answers, current_riddle and    *)
(* history of the session are what they were before the call.              *)
(***************************************************************************)
C1_AnswerAtomicOnFailure ==
    [][\A c \in Suspended, kind \in GenFailures :
         AnswerFail(c, kind) =>
            /\ IsError(response')
            /\ Game(anonymous_sessions'[c.session_id]) = Game(c.before[1])]_vars

(***************************************************************************)
(* C2: answers on one session are serialized: no two answer handlers have  *)
(* scored against the same riddle of the session's history, so that one    *)
(* scores against the riddle current before either call and the other      *)
(* against the riddle the first one issued.                                *)
(***************************************************************************)
C2_AnswersSerialized ==
    /\ \A c \in Suspended : c.op = "answer" => CopiesIn(c, calls) = 1
    /\ \A c, d \in Suspended :
         (c # d /\ c.op = "answer" /\ d.op = "answer"
                /\ c.session_id = d.session_id)
            => ScoredAt(c) # ScoredAt(d)

(***************************************************************************)
(* C3: an answer on a session that end has made inactive fails with an     *)
(* error, changes nothing of the session and fetches no riddle.            *)
(***************************************************************************)
C3_EndedRejectsAnswer ==
    [][\A cookie \in Cookies :
         (Ended(cookie) /\ AnswerRequest(cookie)) =>
            /\ IsError(response') /\ response'.op = "answer"
            /\ anonymous_sessions' = anonymous_sessions
            /\ calls' = calls]_vars

(***************************************************************************)
(* C4: a start whose riddle fetch fails creates no session: the id it      *)
(* allocated is not in the store afterwards.                               *)
(***************************************************************************)
C4_StartAllOrNothing ==
    [][\A c \in Suspended, kind \in GenFailures :
         StartFail(c, kind) => c.session_id \notin DOMAIN anonymous_sessions']_vars

(***************************************************************************)
(* C5: in every reachable state every session has                          *)
(* correct_answers <= total_answered.                                      *)
(***************************************************************************)
C5_CorrectAtMostTotal ==
    \A id \in DOMAIN anonymous_sessions :
        anonymous_sessions[id].correct_answers <= anonymous_sessions[id].total_answered

\* a correct answer has been counted and its next-riddle fetch has failed
C5_Witness ==
    /\ response.op = "answer" /\ IsError(response)
    /\ response.active_before # None
    /\ \E id \in DOMAIN anonymous_sessions :
          /\ anonymous_sessions[id].correct_answers = 1
          /\ anonymous_sessions[id].total_answered = 1

(***************************************************************************)
(* C6: the history of a session is as long as the number of riddles issued *)
(* to it, and at least 1 once the start that created it has returned or    *)
(* failed.                                                                 *)
(***************************************************************************)
C6_HistoryCountsRiddles ==
    \A id \in DOMAIN anonymous_sessions :
        /\ Len(anonymous_sessions[id].questions_history) = riddles_issued[id]
        /\ ~StartPending(id) => Len(anonymous_sessions[id].questions_history) >= 1

(***************************************************************************)
(* C7: a successful answer fills in user_answer and is_correct of the      *)
(* history entry that was last before the call, so that afterwards only    *)
(* the final entry of the history has them absent.                         *)
(***************************************************************************)
C7_AnswerRecordsOutcome ==
    [][\A c \in Suspended, riddle \in Riddles :
         AnswerOk(c, riddle) =>
            LET history == anonymous_sessions'[c.session_id].questions_history
            IN /\ history[ScoredAt(c)].user_answer = Some(c.req_answer)
               /\ history[ScoredAt(c)].correct = Some(c.is_correct)
               /\ \A i \in 1..(Len(history) - 1) :
                     history[i].user_answer # None /\ history[i].correct # None
               /\ history[Len(history)].user_answer = None
               /\ history[Len(history)].correct = None]_vars

(***************************************************************************)
(* C8: an answer adds exactly 1 to total_answered, and adds exactly 1 to   *)
(* score and to correct_answers if and only if the submitted text equals   *)
(* the current riddle's answer after trim and lowercase of both; the       *)
(* issuing of the next riddle changes none of the three.                   *)
(***************************************************************************)
C8_AnswerCounts ==
    [][/\ \A cookie \in DOMAIN anonymous_sessions, answer \in Answers :
            (BeginAt(cookie) /\ AnswerBegin(cookie, answer)) =>
                LET old == anonymous_sessions[cookie]
                    new == anonymous_sessions'[cookie]
                    gain == IF Matches(answer, old.current_riddle[1]) THEN 1 ELSE 0
                IN Counters(new) =
                      <<old.total_answered + 1, old.score + gain,
                        old.correct_answers + gain>>
       /\ \A c \in Suspended, riddle \in Riddles :
            (ResumeOf(c) /\ AnswerOk(c, riddle)) =>
                Counters(anonymous_sessions'[c.session_id]) =
                    Counters(anonymous_sessions[c.session_id])]_vars

\* one answer matched only after trim and lowercase, another did not match
C8_Witness ==
    /\ response = Reply("answer", 200, "Correct", Some(TRUE))
    /\ \E id \in DOMAIN anonymous_sessions :
          /\ Counters(anonymous_sessions[id]) = <<2, 1, 1>>
          /\ anonymous_sessions[id].questions_history[2].correct_answer = <<"K", " ">>
          /\ Len(anonymous_sessions[id].questions_history) = 3

(***************************************************************************)
(* C9: play continues on a wrong answer: the answer leaves active and      *)
(* score as they were, and its next riddle becomes current_riddle and is   *)
(* appended to the history as one entry, as after a correct answer.        *)
(***************************************************************************)
C9_WrongAnswerContinues ==
    [][/\ \A cookie \in DOMAIN anonymous_sessions, answer \in Answers :
            (BeginAt(cookie) /\ AnswerBegin(cookie, answer)
                /\ ~Matches(answer, anonymous_sessions[cookie].current_riddle[1])) =>
                /\ anonymous_sessions'[cookie].active = anonymous_sessions[cookie].active
                /\ anonymous_sessions'[cookie].score = anonymous_sessions[cookie].score
       /\ \A c \in Suspended, riddle \in Riddles :
            (ResumeOf(c) /\ AnswerOk(c, riddle)) =>
                LET old == anonymous_sessions[c.session_id]
                    new == anonymous_sessions'[c.session_id]
                IN /\ new.active = old.active
                   /\ new.score = old.score
                   /\ new.current_riddle = Some(riddle_dict(riddle))
                   /\ new.questions_history =
                         Append(old.questions_history, history_entry(riddle))]_vars

\* a wrong answer on an active session got its next riddle
C9_Witness ==
    /\ response = Reply("answer", 200, "Wrong", Some(TRUE))
    /\ \E id \in DOMAIN anonymous_sessions :
          /\ anonymous_sessions[id].active
          /\ Counters(anonymous_sessions[id]) = <<1, 0, 0>>
          /\ Len(anonymous_sessions[id].questions_history) = 2

(***************************************************************************)
(* C10: end on a session that is already ended returns success and leaves  *)
(* the session, and every other one, as it was, with active = false.       *)
(***************************************************************************)
C10_EndIdempotent ==
    [][\A cookie \in Cookies :
         (Ended(cookie) /\ EndGame(cookie)) =>
            /\ response'.op = "end" /\ response'.status = 200
            /\ anonymous_sessions' = anonymous_sessions
            /\ ~anonymous_sessions'[cookie].active]_vars

\* end has succeeded on a session it found ended, after answers were counted
C10_Witness ==
    /\ response.op = "end" /\ response.status = 200
    /\ response.active_before = Some(FALSE)
    /\ \E id \in DOMAIN anonymous_sessions :
          ~anonymous_sessions[id].active /\ anonymous_sessions[id].total_answered > 0

(***************************************************************************)
(* C11: a session that is inactive stays in the store and stays inactive   *)
(* in every later state; start allocates an id that is not in the store    *)
(* and leaves every session that was there as it was, and the rest of      *)
(* start touches no other session and no active flag.                      *)
(***************************************************************************)
C11_EndedIsAbsorbing ==
    [][/\ \A id \in DOMAIN anonymous_sessions :
            ~anonymous_sessions[id].active =>
                /\ id \in DOMAIN anonymous_sessions'
                /\ ~anonymous_sessions'[id].active
       /\ StartBegin =>
            /\ DOMAIN anonymous_sessions' \ DOMAIN anonymous_sessions # {}
            /\ \A id \in DOMAIN anonymous_sessions :
                  anonymous_sessions'[id] = anonymous_sessions[id]
       /\ \A c \in Suspended :
            (AwaitStep /\ c.op = "start" /\ calls' = Resume(c)) =>
                \A id \in DOMAIN anonymous_sessions :
                    /\ id # c.session_id =>
                          anonymous_sessions'[id] = anonymous_sessions[id]
                    /\ anonymous_sessions'[id].active = anonymous_sessions[id].active]_vars

\* a start has succeeded while an ended session, answered after its end, is in
\* the store
C11_Witness ==
    /\ response.op = "start" /\ response.status = 200
    /\ \E id \in DOMAIN anonymous_sessions :
          /\ ~anonymous_sessions[id].active
          /\ Len(anonymous_sessions[id].questions_history) = 2
    /\ \E id \in DOMAIN anonymous_sessions : anonymous_sessions[id].active

(***************************************************************************)
(* C12: an answer without a cookie or with a cookie the store does not     *)
(* know fails with a 400 error, creates no session, leaves every session   *)
(* as it was and reaches no generator call.                                *)
(***************************************************************************)
C12_UnknownSessionRejected ==
    [][(\/ AnswerNoCookie
        \/ \E cookie \in Cookies \ DOMAIN anonymous_sessions :
              cookie # NoCookie /\ AnswerRequest(cookie)) =>
            /\ response'.op = "answer" /\ response'.status = 400
            /\ anonymous_sessions' = anonymous_sessions
            /\ calls' = calls]_vars

\* an unknown cookie was rejected while the store holds a session in play
C12_Witness ==
    /\ response = Reply("answer", 400, "Invalid or inactive session.", None)
    /\ \E id \in DOMAIN anonymous_sessions :
          anonymous_sessions[id].current_riddle # None

(***************************************************************************)
(* C15: a timeout, a non-200 status and a reply that does not parse as     *)
(* {question, answer} reach the caller as different errors: the error      *)
(* reported for a failure of one kind is not the error of another kind.    *)
(***************************************************************************)
C15_FailureKindsDistinct ==
    [][\A c \in Suspended, kind \in GenFailures :
         (AwaitStep /\ (StartFail(c, kind) \/ AnswerFail(c, kind))) =>
            \A other \in GenFailures :
                FailureKind(other) # FailureKind(kind) =>
                    [status |-> response'.status, detail |-> response'.detail]
                        # generate_riddle_error(other)]_vars

\* a non-200 status of the service has been reported to the caller of answer
C15_Witness ==
    /\ response.op = "answer"
    /\ response.status = 500
    /\ response.detail = "Unexpected error: 500: AI API error"

(***************************************************************************)
(* C17: from one state to the next no session leaves the store and none of *)
(* total_answered, correct_answers and score of a session decreases.       *)
(***************************************************************************)
C17_CountersNeverDecrease ==
    [][\A id \in DOMAIN anonymous_sessions :
         /\ id \in DOMAIN anonymous_sessions'
         /\ anonymous_sessions'[id].total_answered
                >= anonymous_sessions[id].total_answered
         /\ anonymous_sessions'[id].correct_answers
                >= anonymous_sessions[id].correct_answers
         /\ anonymous_sessions'[id].score >= anonymous_sessions[id].score]_vars

\* a wrong answer after a right one has lost its next riddle to a timeout
C17_Witness ==
    /\ response.op = "answer" /\ response.status = 504
    /\ \E id \in DOMAIN anonymous_sessions :
          /\ Counters(anonymous_sessions[id]) = <<2, 1, 1>>
          /\ Len(anonymous_sessions[id].questions_history) = 2

(***************************************************************************)
(* C18: create allocates an id that is no key of the store and initialises *)
(* that session with score 0, total_answered 0, correct_answers 0, active  *)
(* true, an empty history and no current riddle; every other session is    *)
(* left as it was.                                                         *)
(***************************************************************************)
C18_CreateIsFresh ==
    [][StartBegin =>
         \E id \in DOMAIN anonymous_sessions' \ DOMAIN anonymous_sessions :
            /\ DOMAIN anonymous_sessions' = DOMAIN anonymous_sessions \cup {id}
            /\ Counters(anonymous_sessions'[id]) = <<0, 0, 0>>
            /\ anonymous_sessions'[id].active
            /\ anonymous_sessions'[id].questions_history = << >>
            /\ anonymous_sessions'[id].current_riddle = None
            /\ \A other \in DOMAIN anonymous_sessions :
                  anonymous_sessions'[other] = anonymous_sessions[other]]_vars

\* a session was created while another one had an answer counted
C18_Witness ==
    \E id, other \in DOMAIN anonymous_sessions :
        /\ StartPending(id)
        /\ anonymous_sessions[id].questions_history = << >>
        /\ anonymous_sessions[other].total_answered = 1
        /\ ~StartPending(other)

(***************************************************************************)
(* C16: the success rate that score and end report is                      *)
(* round(correct_answers / total_answered * 100, 2) of the session's       *)
(* counters at the read when total_answered > 0, and 0.0 when it is 0.     *)
(***************************************************************************)
C16_SuccessRateFromCounters ==
    [][\A cookie \in DOMAIN anonymous_sessions :
         ((GetScore(cookie) \/ EndGame(cookie)) /\ response'.status = 200) =>
            LET session == anonymous_sessions[cookie]
            IN /\ response'.success_rate # None
               /\ IF session.total_answered = 0
                  THEN response'.success_rate[1] = 0
                  ELSE IsRoundedPercent(response'.success_rate[1],
                                        session.correct_answers,
                                        session.total_answered)]_vars

\* 2 right answers of 3 were reported as 66.67
C16_Witness ==
    /\ response.op = "score" /\ response.status = 200
    /\ response.success_rate = Some(6667)
    /\ Counters(anonymous_sessions[1]) = <<3, 2, 2>>

(***************************************************************************)
(* C19: update on an id that is not in the store returns the not-found     *)
(* signal and leaves the store unchanged, creating nothing; on a known id  *)
(* it overwrites exactly the fields the mutation names and leaves the      *)
(* session's other fields and every other session unchanged.               *)
(***************************************************************************)
C19_UpdateFrame ==
    [][\A session_id \in Cookies, updates \in Mutations :
         (StoreStep("update", session_id) /\ StoreUpdate(session_id, updates)) =>
            IF session_id \notin DOMAIN anonymous_sessions
            THEN /\ response'.returned = Some(FALSE)
                 /\ anonymous_sessions' = anonymous_sessions
            ELSE /\ response'.returned = Some(TRUE)
                 /\ DOMAIN anonymous_sessions' = DOMAIN anonymous_sessions
                 /\ DOMAIN anonymous_sessions'[session_id] =
                        DOMAIN anonymous_sessions[session_id]
                 /\ \A f \in DOMAIN updates :
                       anonymous_sessions'[session_id][f] = updates[f]
                 /\ \A f \in DOMAIN anonymous_sessions[session_id] \ DOMAIN updates :
                       anonymous_sessions'[session_id][f] =
                           anonymous_sessions[session_id][f]
                 /\ \A other \in DOMAIN anonymous_sessions \ {session_id} :
                       anonymous_sessions'[other] = anonymous_sessions[other]]_vars

\* an update set the score of one of two stored sessions
C19_Witness ==
    /\ response.op = "update" /\ response.returned = Some(TRUE)
    /\ response.found # None
    /\ response.found[1].score = 0
    /\ response.session_id \in DOMAIN anonymous_sessions
    /\ anonymous_sessions[response.session_id].score = 1
    /\ Cardinality(DOMAIN anonymous_sessions) = 2

(***************************************************************************)
(* C20: delete removes the session whether its game is active or ended,    *)
(* and get of that id is then absent; delete of an id that is not in the   *)
(* store raises nothing and leaves the store unchanged, so a second delete *)
(* of the same id changes nothing.                                         *)
(***************************************************************************)
C20_DeleteRemoves ==
    [][\A session_id \in Cookies :
         (StoreStep("delete", session_id) /\ StoreDelete(session_id)) =>
            /\ response'.returned = Some(session_id \in DOMAIN anonymous_sessions)
            /\ get_anonymous_session(anonymous_sessions', session_id) = None
            /\ DOMAIN anonymous_sessions' = DOMAIN anonymous_sessions \ {session_id}
            /\ \A other \in DOMAIN anonymous_sessions' :
                  anonymous_sessions'[other] = anonymous_sessions[other]
            /\ (session_id \notin DOMAIN anonymous_sessions =>
                  anonymous_sessions' = anonymous_sessions)
            /\ delete_anonymous_session(anonymous_sessions', session_id) =
                  anonymous_sessions']_vars

\* a session whose game had ended was deleted while another one stayed
C20_Witness ==
    /\ response.op = "delete" /\ response.returned = Some(TRUE)
    /\ response.found # None
    /\ ~response.found[1].active
    /\ response.session_id \notin DOMAIN anonymous_sessions
    /\ anonymous_sessions # << >>

(***************************************************************************)
(* C13: when a session of a registered user ends, the user's UserStats has *)
(* total_games_played one higher, total_questions_answered higher by the   *)
(* session's total_answered, total_correct_answers higher by its           *)
(* correct_answers and highest_score the maximum of its old value and the  *)
(* session's score; and only the deletion of the account lowers a counter  *)
(* of a UserStats row.                                                     *)
(***************************************************************************)
C13_EndAggregatesStats ==
    [][/\ \A user \in Users, cookie \in DOMAIN anonymous_sessions :
            (UserEndGame(user, cookie) /\ anonymous_sessions[cookie].active) =>
                LET session == anonymous_sessions[cookie]
                    old == IF stats_of(db, user) = {}
                           THEN new_user_stats(user)
                           ELSE CHOOSE row \in stats_of(db, user) : TRUE
                IN stats_of(db', user) =
                      {stats_row(user,
                                 old.total_games_played + 1,
                                 old.total_questions_answered + session.total_answered,
                                 old.total_correct_answers + session.correct_answers,
                                 IF session.score > old.highest_score
                                 THEN session.score ELSE old.highest_score)}
       /\ \A old \in db.user_stats :
            \/ DeleteAccountOk(old.user_id)
            \/ \E new \in stats_of(db', old.user_id) :
                  /\ new.total_games_played >= old.total_games_played
                  /\ new.total_questions_answered >= old.total_questions_answered
                  /\ new.total_correct_answers >= old.total_correct_answers
                  /\ new.highest_score >= old.highest_score]_vars

(***************************************************************************)
(* C14: after delete_account succeeded for a user, no User, UserStats,     *)
(* GameSession or RiddleHistory row of that user is left and the rows of   *)
(* the other users are as they were; when a step of the deletion fails,    *)
(* the database is as it was before the call and the answer is an error.   *)
(***************************************************************************)
C14_DeleteAccountCascades ==
    [][\A user \in Users :
         /\ DeleteAccountOk(user) =>
               /\ response'.status = 200
               /\ db'.users = db.users \ {user}
               /\ db'.user_stats = {row \in db.user_stats : row.user_id # user}
               /\ db'.game_sessions = {row \in db.game_sessions : row.user_id # user}
               /\ db'.riddles_history =
                     {row \in db.riddles_history :
                         \E session \in db.game_sessions :
                            /\ session.id = row.game_session_id
                            /\ session.user_id # user}
         /\ \A step \in 0..3 :
               DeleteAccountFail(user, step) =>
                  /\ db' = db
                  /\ IsError(response')]_vars

\* an account with stats, a game session and its history was deleted while
\* another user's game session and history stayed
C14_Witness ==
    /\ response = Reply("delete_account", 200,
                        "Account and all data deleted successfully", None)
    /\ db.users = {"u2"}
    /\ db.game_sessions = {game_session_row(2, "u2")}
    /\ db.riddles_history = {riddle_history_row(1, 2)}
    /\ db.user_stats # {}

(***************************************************************************)
(* C21: no retry.  A start and an accepted answer each make exactly one    *)
(* call to the riddle generator; when the call fails the handler ends with *)
(* that failure as its response and makes no second call; end and score    *)
(* make no call: a step that changes the calls in flight is none of theirs.*)
(***************************************************************************)
C21_NoRetry ==
    [][/\ (AwaitStep /\ uuids_used' # uuids_used /\ StartBegin) =>
              GeneratorCalls(calls') = GeneratorCalls(calls) + 1
       /\ \A cookie \in DOMAIN anonymous_sessions, answer \in Answers :
              (/\ uuids_used' = uuids_used /\ BeginAt(cookie)
               /\ AnswerBegin(cookie, answer)) =>
                  GeneratorCalls(calls') = GeneratorCalls(calls) + 1
       /\ \A c \in Suspended :
              ResumeOf(c) =>
                  /\ response'.op = c.op
                  /\ \A riddle \in Riddles :
                        (/\ response'.status = 200
                         /\ (StartOk(c, riddle) \/ AnswerOk(c, riddle))) =>
                            calls' = Resume(c)
                  /\ \A kind \in GenFailures :
                        (StartFail(c, kind) \/ AnswerFail(c, kind)) =>
                            /\ calls' = Resume(c)
                            /\ GeneratorCalls(calls') = GeneratorCalls(calls) - 1
                            /\ response'.status = generate_riddle_error(kind).status
                            /\ response'.detail = generate_riddle_error(kind).detail
       /\ \A cookie \in Cookies :
              (AwaitStep /\ response'.op \in {"score", "end"}) =>
                  ~(\/ ScoreNoCookie \/ ScoreNotFound(cookie) \/ GetScore(cookie)
                    \/ EndNoCookie \/ EndNotFound(cookie) \/ EndGame(cookie))]_vars

\* a start whose only generator call timed out: the caller has the 504, no
\* riddle was issued and no call is in flight
C21_Witness ==
    /\ response = Reply("start", 504, "AI API timeout", None)
    /\ calls = EmptyBag
    /\ uuids_used = 1
    /\ riddles_issued[1] = 0

(***************************************************************************)
(* C22: in every reachable state every session of the store has            *)
(* score = correct_answers.                                                *)
(***************************************************************************)
C22_ScoreIsCorrectAnswers ==
    \A id \in DOMAIN anonymous_sessions :
        anonymous_sessions[id].score = anonymous_sessions[id].correct_answers

\* a session with one right and one wrong answer counted
C22_Witness ==
    \E id \in DOMAIN anonymous_sessions :
        /\ anonymous_sessions[id].total_answered = 2
        /\ anonymous_sessions[id].score = 1
        /\ anonymous_sessions[id].correct_answers = 1
        /\ calls = EmptyBag

(***************************************************************************)
(* C23: in every reachable state, also with answers on one session         *)
(* interleaved, a session that has a current riddle has a history whose    *)
(* last entry carries that riddle: the same question, and correct_answer   *)
(* equal to the riddle's answer.                                           *)
(***************************************************************************)
C23_CurrentRiddleIsLastEntry ==
    \A id \in DOMAIN anonymous_sessions :
        LET session == anonymous_sessions[id]
            history == session.questions_history
        IN session.current_riddle # None =>
              /\ history # << >>
              /\ history[Len(history)].question = session.current_riddle[1].question
              /\ history[Len(history)].correct_answer =
                     session.current_riddle[1].answer

\* two answers on one session were in flight together and both got a riddle
C23_Witness ==
    \E id \in DOMAIN anonymous_sessions :
        LET session == anonymous_sessions[id]
        IN /\ calls = EmptyBag
           /\ Len(session.questions_history) = 3
           /\ session.questions_history[1].question = "q1"
           /\ session.questions_history[2].question = "q2"
           /\ session.questions_history[3].question = "q1"
           /\ session.current_riddle = Some(riddle_dict([question |-> "q1",
                                                         answer |-> <<"K", " ">>]))
           /\ session.correct_answers = 2

(***************************************************************************)
(* C24: in every reachable state, also after a failed riddle fetch and     *)
(* with answers interleaved, every session with at least one history entry *)
(* has len(history) = total_answered + 1.                                  *)
(***************************************************************************)
C24_HistoryIsAnsweredPlusOne ==
    \A id \in DOMAIN anonymous_sessions :
        LET session == anonymous_sessions[id]
        IN session.questions_history # << >> =>
              Len(session.questions_history) = session.total_answered + 1

(***************************************************************************)
(* C25: an answer and an end on a session leave every other session as it  *)
(* was; a score request changes no session; an end changes nothing of its  *)
(* session but the active flag: the counters, current_riddle and the       *)
(* history stay.  So a step that changes the store is no score request,    *)
(* and as an answer or an end it changes one session only.                 *)
(***************************************************************************)
C25_Frame ==
    [][anonymous_sessions' # anonymous_sessions =>
         /\ \A cookie \in DOMAIN anonymous_sessions :
              (BeginAt(cookie) /\ \E answer \in Answers : AnswerBegin(cookie, answer)) =>
                  OthersUnchanged(cookie)
         /\ \A c \in Suspended :
              (/\ ResumeOf(c) /\ response'.op = "answer"
               /\ \/ \E riddle \in Riddles : AnswerOk(c, riddle)
                  \/ \E kind \in GenFailures : AnswerFail(c, kind)) =>
                  OthersUnchanged(c.session_id)
         /\ \A cookie \in Cookies :
              (/\ response'.op = "answer" /\ ~AwaitStep
               /\ (AnswerNoCookie \/ AnswerInvalid(cookie) \/ AnswerNoRiddle(cookie))) =>
                  OthersUnchanged(cookie)
         /\ \A cookie \in Cookies :
              (/\ response'.op = "score" /\ ~AwaitStep
               /\ (ScoreNoCookie \/ ScoreNotFound(cookie) \/ GetScore(cookie))) =>
                  FALSE
         /\ \A cookie \in Cookies :
              (/\ response'.op = "end" /\ ~AwaitStep
               /\ (EndNoCookie \/ EndNotFound(cookie))) =>
                  FALSE
         /\ \A cookie \in Cookies :
              (response'.op = "end" /\ ~AwaitStep /\ EndGame(cookie)) =>
                  /\ OthersUnchanged(cookie)
                  /\ anonymous_sessions'[cookie] =
                        [anonymous_sessions[cookie] EXCEPT
                            !.active = anonymous_sessions'[cookie].active]]_vars

\* an active session with a counted answer and a pending riddle was ended
\* while another session was in play
C25_Witness ==
    /\ response.op = "end" /\ response.status = 200
    /\ response.active_before = Some(TRUE)
    /\ \E id, other \in DOMAIN anonymous_sessions :
          /\ ~anonymous_sessions[id].active
          /\ anonymous_sessions[id].total_answered = 1
          /\ anonymous_sessions[id].current_riddle # None
          /\ anonymous_sessions[other].active
          /\ anonymous_sessions[other].current_riddle # None

====
